---- MODULE Spec2Model ----
(***************************************************************************)
(* A model of pydavis: the CRC routine, the packed date and time codecs,   *)
(* the LOOP2 record loader (davismethods.py, daviscommands.py) and the     *)
(* command shell (davis.py).                                               *)
(*                                                                         *)
(* Python values are modelled with their outcome: a call either returns a  *)
(* value, [kind |-> "return", ...], or raises, [kind |-> "raise", ...].    *)
(* numpy scalars carry their dtype, [t |-> dtype, v |-> number]; a plain   *)
(* Python int has t = "int".                                               *)
(***************************************************************************)
EXTENDS Integers, Sequences, FiniteSets, TLC

VARIABLES
    numpy,        \* the promotion rules of the installed numpy
    crc_op,       \* CRC: the method called, "__call__" or "__bool__"
    crc_pc,       \* CRC: position in the method
    crc_arg,      \* CRC: the argument, [type, items]
    crc_data,     \* CRC.__call__: the local `data`
    crc_i,        \* CRC.__call__: bytes of `data` the for loop has consumed
    AX,           \* CRC.__call__: the local AX
    crc_idx,      \* CRC.__call__: the last subscript of crc_table
    crc_ret,      \* CRC: the outcome of the call
    date_op,      \* DavisDate: "round_trip" (to_davis, then from_davis) or "from_davis"
    date_pc,      \* DavisDate: position in the calls
    date_arg,     \* DavisDate.to_davis: the date d
    date_value,   \* DavisDate.from_davis: the packed value
    date_ret,     \* DavisDate: the outcome of the last call
    time_op,      \* DavisTime: "round_trip" or "from_davis"
    time_pc,      \* DavisTime: position in the calls
    time_arg,     \* DavisTime.to_davis: the time of day
    time_value,   \* DavisTime.from_davis: the packed value
    time_ret,     \* DavisTime: the outcome of the last call
    loop_call,    \* LoopRecord: the classmethod called
    loop_pc,      \* LoopRecord: position in the call
    socket_file,  \* LoopRecord: the bytes the connection still holds
    data,         \* LoopRecord._get_loop_2_arguments: the local `data`
    unpacked,     \* LoopRecord._get_loop_2_arguments: the local `unpacked`
    arguments,    \* LoopRecord: the dictionary `arguments`
    loop_ret,     \* LoopRecord: the outcome of the call
    sh_pc,        \* Davis: "prompt" between commands, else the place in do_connect
    connection,   \* Davis: self.connection
    wire,         \* Davis: what has passed over the transport, oldest first
    console,      \* Davis: what has been printed
    commands,     \* Davis: commands read so far
    exit_code,    \* Davis: None while running, else the status of sys.exit
    enum_module,  \* DavisCommand: the module whose class statement runs
    enum_pc,      \* DavisCommand: "body", then "class" once the class exists
    classdict,    \* DavisCommand: the names the class body has bound, in order
    members,      \* DavisCommand: the member map of the class
    enum_name,    \* DavisCommand[name]: the name looked up
    enum_ret      \* DavisCommand[name]: the outcome of the lookup

crcVars == <<crc_op, crc_pc, crc_arg, crc_data, crc_i, AX, crc_idx, crc_ret>>

dateVars == <<date_op, date_pc, date_arg, date_value, date_ret>>

timeVars == <<time_op, time_pc, time_arg, time_value, time_ret>>

loopVars == <<loop_call, loop_pc, socket_file, data, unpacked, arguments, loop_ret>>

shellVars == <<sh_pc, connection, wire, console, commands, exit_code>>

enumVars == <<enum_module, enum_pc, classdict, members, enum_name, enum_ret>>

vars == <<numpy, crcVars, dateVars, timeVars, loopVars, shellVars, enumVars>>

-----------------------------------------------------------------------------
(* Outcomes of a Python call.                                              *)

Return(v) == [kind |-> "return", val |-> v]

Raise(e) == [kind |-> "raise", exc |-> e]

None == [t |-> "NoneType"]

NoCall == [kind |-> "none"]

-----------------------------------------------------------------------------
(* A component that takes no part in a specification stays as constructed. *)

CRCIdle ==
    /\ crc_op = "none" /\ crc_pc = "done" /\ crc_arg = None /\ crc_data = <<>>
    /\ crc_i = 0 /\ AX = None /\ crc_idx = None /\ crc_ret = NoCall

DateIdle ==
    /\ date_op = "none" /\ date_pc = "done" /\ date_arg = None
    /\ date_value = None /\ date_ret = NoCall

TimeIdle ==
    /\ time_op = "none" /\ time_pc = "done" /\ time_arg = None
    /\ time_value = None /\ time_ret = NoCall

LoopIdle ==
    /\ loop_call = "none" /\ loop_pc = "done" /\ socket_file = <<>>
    /\ data = None /\ unpacked = None /\ arguments = None /\ loop_ret = NoCall

ShellIdle ==
    /\ sh_pc = "none" /\ connection = None /\ wire = <<>> /\ console = <<>>
    /\ commands = 0 /\ exit_code = None

EnumIdle ==
    /\ enum_module = "" /\ enum_pc = "idle" /\ classdict = <<>>
    /\ members = <<>> /\ enum_name = "" /\ enum_ret = NoCall

-----------------------------------------------------------------------------
(* Python's integer operators on non-negative operands.                    *)

RECURSIVE BitXor(_, _)
\* a ^ b
BitXor(a, b) ==
    IF a = 0 THEN b
    ELSE IF b = 0 THEN a
    ELSE (((a % 2) + (b % 2)) % 2) + 2 * BitXor(a \div 2, b \div 2)

RECURSIVE BitAnd(_, _)
\* a & b
BitAnd(a, b) ==
    IF a = 0 \/ b = 0 THEN 0
    ELSE ((a % 2) * (b % 2)) + 2 * BitAnd(a \div 2, b \div 2)

RECURSIVE Pow2(_)
Pow2(n) == IF n = 0 THEN 1 ELSE 2 * Pow2(n - 1)

\* a >> n
ShiftRight(a, n) == a \div Pow2(n)

\* a << n, on Python's unbounded int
ShiftLeft(a, n) == a * Pow2(n)

-----------------------------------------------------------------------------
(* numpy scalar arithmetic.  The modules import numpy without pinning a    *)
(* version.  Before NEP 50 (numpy 1.x) a numpy scalar combined with a      *)
(* Python int is computed in the default integer, int64; from numpy 2 on   *)
(* the Python int takes the scalar's dtype.                                *)

NumpyRules == {"legacy", "nep50"}

PyInt(n) == [t |-> "int", v |-> n]

Uint16(n) == [t |-> "uint16", v |-> n]

\* the dtype of a binary operator's result
ResultType(t1, t2) ==
    IF t1 = t2 THEN t1
    ELSE IF t1 = "int" THEN (IF numpy = "legacy" THEN "int64" ELSE t2)
    ELSE IF t2 = "int" THEN (IF numpy = "legacy" THEN "int64" ELSE t1)
    ELSE "int64"

\* a value kept in dtype t: uint16 wraps around at 16 bits
Wrap(t, n) == IF t = "uint16" THEN n % 65536 ELSE n

\* x >> n, n a Python int
NpShiftRight(x, n) ==
    LET t == ResultType(x.t, "int") IN [t |-> t, v |-> ShiftRight(x.v, n)]

\* x << n, n a Python int
NpShiftLeft(x, n) ==
    LET t == ResultType(x.t, "int") IN [t |-> t, v |-> Wrap(t, ShiftLeft(x.v, n))]

\* x ^ y
NpXor(x, y) ==
    LET t == ResultType(x.t, y.t) IN [t |-> t, v |-> Wrap(t, BitXor(x.v, y.v))]

-----------------------------------------------------------------------------
(* prep and prepx.                                                         *)

\* the UTF-8 encoding of one code point below 2048
Utf8Char(c) ==
    IF c < 128 THEN <<c>> ELSE <<192 + (c \div 64), 128 + (c % 64)>>

RECURSIVE Utf8(_)
Utf8(s) == IF s = <<>> THEN <<>> ELSE Utf8Char(Head(s)) \o Utf8(Tail(s))

\* prep(s): a str, given as its code points, to a bytearray
prep(s) == Utf8(s)

-----------------------------------------------------------------------------
(* class CRC                                                               *)

crc_table ==
    <<
           0,  4129,  8258, 12387, 16516, 20645, 24774, 28903,
       33032, 37161, 41290, 45419, 49548, 53677, 57806, 61935,
        4657,   528, 12915,  8786, 21173, 17044, 29431, 25302,
       37689, 33560, 45947, 41818, 54205, 50076, 62463, 58334,
        9314, 13379,  1056,  5121, 25830, 29895, 17572, 21637,
       42346, 46411, 34088, 38153, 58862, 62927, 50604, 54669,
       13907,  9842,  5649,  1584, 30423, 26358, 22165, 18100,
       46939, 42874, 38681, 34616, 63455, 59390, 55197, 51132,
       18628, 22757, 26758, 30887,  2112,  6241, 10242, 14371,
       51660, 55789, 59790, 63919, 35144, 39273, 43274, 47403,
       23285, 19156, 31415, 27286,  6769,  2640, 14899, 10770,
       56317, 52188, 64447, 60318, 39801, 35672, 47931, 43802,
       27814, 31879, 19684, 23749, 11298, 15363,  3168,  7233,
       60846, 64911, 52716, 56781, 44330, 48395, 36200, 40265,
       32407, 28342, 24277, 20212, 15891, 11826,  7761,  3696,
       65439, 61374, 57309, 53244, 48923, 44858, 40793, 36728,
       37256, 33193, 45514, 41451, 53516, 49453, 61774, 57711,
        4224,   161, 12482,  8419, 20484, 16421, 28742, 24679,
       33721, 37784, 41979, 46042, 49981, 54044, 58239, 62302,
         689,  4752,  8947, 13010, 16949, 21012, 25207, 29270,
       46570, 42443, 38312, 34185, 62830, 58703, 54572, 50445,
       13538,  9411,  5280,  1153, 29798, 25671, 21540, 17413,
       42971, 47098, 34713, 38840, 59231, 63358, 50973, 55100,
        9939, 14066,  1681,  5808, 26199, 30326, 17941, 22068,
       55628, 51565, 63758, 59695, 39368, 35305, 47498, 43435,
       22596, 18533, 30726, 26663,  6336,  2273, 14466, 10403,
       52093, 56156, 60223, 64286, 35833, 39896, 43963, 48026,
       19061, 23124, 27191, 31254,  2801,  6864, 10931, 14994,
       64814, 60687, 56684, 52557, 48554, 44427, 40424, 36297,
       31782, 27655, 23652, 19525, 15522, 11395,  7392,  3265,
       61215, 65342, 53085, 57212, 44955, 49082, 36825, 40952,
       28183, 32310, 20053, 24180, 11923, 16050,  3793,  7920
    >>

crc_init == 0

\* crc_table[i]: a uint16 element, or IndexError outside 0..255
TableLookup(i) ==
    IF i \in 0 .. (Len(crc_table) - 1)
    THEN Return(Uint16(crc_table[i + 1]))
    ELSE Raise("IndexError")

\* (AX >> 8) ^ b
TableIndex(ax, b) == NpXor(NpShiftRight(ax, 8), PyInt(b))

\* one pass of the body of `for b in data`
LoopBody(ax, b) ==
    LET e == TableLookup(TableIndex(ax, b).v)
    IN  IF e.kind = "raise" THEN e
        ELSE Return(NpXor(e.val, NpShiftLeft(ax, 8)))

\* the names davismethods.py binds at top level (daviscommands.py binds the
\* same ones up to DavisTime, with DavisResponse for DavisResponses)
ModuleNames ==
    {"datetime", "enum", "os", "struct", "sys", "time", "typing", "np",
     "utf8", "prep", "prepx", "CRC", "DavisCommand", "DavisResponses",
     "DavisConversions", "dc", "DavisDate", "DavisTime", "LoopRecord"}

\* the parameters and local variables of each function
LocalNames(f) ==
    CASE f = "CRC.__call__" -> {"data", "AX", "b"}
      [] f = "CRC.__bool__" -> {"checksum"}
      [] OTHER -> {}

\* a name loaded inside function f resolves among f's locals and the module's
\* globals (a class attribute is not in scope inside a method)
Bound(f, name) == name \in LocalNames(f) \cup ModuleNames

\* the outcome of loading a name inside f
LoadName(f, name) ==
    IF Bound(f, name) THEN Return(name) ELSE Raise("NameError")

-----------------------------------------------------------------------------
(* The 16-bit fold of the protocol's CRC, for stating the claims: start at *)
(* 0 and, for each byte b, acc = table[(acc >> 8) ^ b] ^ (acc << 8), kept  *)
(* to 16 bits.                                                             *)

\* one step of the fold
ReferenceStep(acc, b) ==
    BitXor(crc_table[BitXor(acc \div 256, b) + 1], (acc * 256) % 65536)

RECURSIVE ReferenceFoldRange(_, _, _, _)
\* the fold continued from acc over d[lo .. hi], evaluated by halves
ReferenceFoldRange(acc, d, lo, hi) ==
    IF lo > hi THEN acc
    ELSE IF lo = hi THEN ReferenceStep(acc, d[lo])
    ELSE LET mid == (lo + hi) \div 2
         IN  CHOOSE r \in {ReferenceFoldRange(a, d, mid + 1, hi) :
                              a \in {ReferenceFoldRange(acc, d, lo, mid)}} : TRUE

ReferenceFold(d) == ReferenceFoldRange(0, d, 1, Len(d))

\* a 16-bit value as two bytes, high byte first
BigEndian(c) == <<c \div 256, c % 256>>

\* d followed by its own checksum
WithChecksum(d) == d \o BigEndian(ReferenceFold(d))

-----------------------------------------------------------------------------
(* Inputs of the CRC calls.                                                *)

MaxLen == 3

\* the first 97 bytes of a LOOP2 record: outside temperature 72.5 F, wind
\* from 90 degrees, 12 rain clicks today
SampleBody ==
    <<
         76,  79,  79,   0,   1, 255, 127, 225, 116, 200,   2,  45,
        213,   2,   5, 255,  90,   0,  45,   0,  50,   0,  80,   0,
        100,   0, 255, 127, 255, 127,  55,   0, 255,  60, 255,  73,
          0,  72,   0,  75,   0,   0,   0,   3, 194,   1,  12,   0,
          0,   0,  12,   0,   0,   0,   2,   0,  15,   0,  12,   0,
          0,   0,   0,   0,   0,   0,   0,   0,   0,   0,   0, 255,
          0,   0,   0,   0,   0,   0,   0,  30,   0,   0,   0, 255,
        127, 255, 127, 255, 127, 255, 127, 255, 127, 255, 127,  10,
         13
    >>

CRCBytes == {0, 1, 137, 255}

ByteSeqs == UNION {[1 .. n -> CRCBytes] : n \in 0 .. MaxLen}

CheckedBuffers == {WithChecksum(d) : d \in ByteSeqs}

Checksums == {0, 161, 13105, 65535}

CallArguments ==
    [type : {"bytearray", "bytes", "str"},
     items : ByteSeqs \cup CheckedBuffers \cup {SampleBody, WithChecksum(SampleBody)}]

BoolArguments == [type : {"uint16"}, items : {<<c>> : c \in Checksums}]

-----------------------------------------------------------------------------
(* CRC.__call__(data) and CRC.__bool__(checksum), a statement at a time.   *)

CRCInit ==
    /\ numpy \in NumpyRules
    /\ crc_op \in {"__call__", "__bool__"}
    /\ crc_arg \in (IF crc_op = "__call__" THEN CallArguments ELSE BoolArguments)
    /\ crc_pc = "entry"
    /\ crc_data = <<>>
    /\ crc_i = 0
    /\ AX = None
    /\ crc_idx = None
    /\ crc_ret = NoCall
    /\ DateIdle /\ TimeIdle /\ LoopIdle /\ ShellIdle /\ EnumIdle

\* if isinstance(data, str): data = prep(data)
CRC_call_str ==
    /\ crc_op = "__call__" /\ crc_pc = "entry"
    /\ crc_arg.type = "str"
    /\ crc_data' = prep(crc_arg.items)
    /\ AX' = PyInt(crc_init)
    /\ crc_pc' = "for"
    /\ UNCHANGED <<numpy, crc_op, crc_arg, crc_i, crc_idx, crc_ret>>
    /\ UNCHANGED <<dateVars, timeVars, loopVars, shellVars, enumVars>>

\* elif not isinstance(data, bytearray): return NotImplemented
CRC_call_other ==
    /\ crc_op = "__call__" /\ crc_pc = "entry"
    /\ crc_arg.type \notin {"str", "bytearray"}
    /\ crc_ret' = Return("NotImplemented")
    /\ crc_pc' = "done"
    /\ UNCHANGED <<numpy, crc_op, crc_arg, crc_data, crc_i, AX, crc_idx>>
    /\ UNCHANGED <<dateVars, timeVars, loopVars, shellVars, enumVars>>

\* else: pass
CRC_call_bytearray ==
    /\ crc_op = "__call__" /\ crc_pc = "entry"
    /\ crc_arg.type = "bytearray"
    /\ crc_data' = crc_arg.items
    /\ AX' = PyInt(crc_init)
    /\ crc_pc' = "for"
    /\ UNCHANGED <<numpy, crc_op, crc_arg, crc_i, crc_idx, crc_ret>>
    /\ UNCHANGED <<dateVars, timeVars, loopVars, shellVars, enumVars>>

\* for b in data: AX = CRC.crc_table[(AX >> 8) ^ b] ^ (AX << 8)
CRC_call_for ==
    /\ crc_op = "__call__" /\ crc_pc = "for"
    /\ crc_i < Len(crc_data)
    /\ LET b == crc_data[crc_i + 1]
           r == LoopBody(AX, b)
       IN  /\ crc_idx' = TableIndex(AX, b)
           /\ IF r.kind = "raise"
              THEN /\ crc_ret' = r
                   /\ crc_pc' = "done"
                   /\ UNCHANGED <<AX, crc_i>>
              ELSE /\ AX' = r.val
                   /\ crc_i' = crc_i + 1
                   /\ UNCHANGED <<crc_pc, crc_ret>>
    /\ UNCHANGED <<numpy, crc_op, crc_arg, crc_data>>
    /\ UNCHANGED <<dateVars, timeVars, loopVars, shellVars, enumVars>>

\* return crc
CRC_call_return ==
    /\ crc_op = "__call__" /\ crc_pc = "for"
    /\ crc_i = Len(crc_data)
    /\ crc_ret' = (LET n == LoadName("CRC.__call__", "crc")
                   IN  IF n.kind = "raise" THEN n ELSE Return(AX))
    /\ crc_pc' = "done"
    /\ UNCHANGED <<numpy, crc_op, crc_arg, crc_data, crc_i, AX, crc_idx>>
    /\ UNCHANGED <<dateVars, timeVars, loopVars, shellVars, enumVars>>

\* return crc_table[(checksum >> 8) ^ b] ^ (checksum << 8) == 0
CRC_bool ==
    /\ crc_op = "__bool__" /\ crc_pc = "entry"
    /\ crc_ret' = (LET t == LoadName("CRC.__bool__", "crc_table")
                       b == LoadName("CRC.__bool__", "b")
                   IN  IF t.kind = "raise" THEN t
                       ELSE IF b.kind = "raise" THEN b
                       ELSE Return(FALSE))
    /\ crc_pc' = "done"
    /\ UNCHANGED <<numpy, crc_op, crc_arg, crc_data, crc_i, AX, crc_idx>>
    /\ UNCHANGED <<dateVars, timeVars, loopVars, shellVars, enumVars>>

CRCNext ==
    \/ CRC_call_str
    \/ CRC_call_other
    \/ CRC_call_bytearray
    \/ CRC_call_for
    \/ CRC_call_return
    \/ CRC_bool

SpecCRC == CRCInit /\ [][CRCNext]_vars

-----------------------------------------------------------------------------
(* Claims about the checksum.                                              *)

\* C1: for every data buffer d, the checksum computed over d followed by the
\* two bytes of its own checksum, high byte first, is 0, and the check of that
\* checksum answers true.
C1_CheckedBufferSumsToZero ==
    /\ (/\ crc_op = "__call__" /\ crc_pc = "done"
        /\ crc_arg.type = "bytearray"
        /\ crc_arg.items \in CheckedBuffers \cup {WithChecksum(SampleBody)})
       => (crc_ret.kind = "return" /\ crc_ret.val.v = 0)
    /\ (/\ crc_op = "__bool__" /\ crc_pc = "done"
        /\ crc_arg.items = <<0>>)
       => crc_ret = Return(TRUE)

\* C2: the checksum of any byte sequence is a value in 0..65535 equal to the
\* 16-bit reference fold; every subscript of the table lies in 0..255 and the
\* accumulator never exceeds 16 bits at any step.
C2_ComputeIsReferenceFold ==
    (crc_op = "__call__" /\ crc_arg.type \in {"bytearray", "str"}) =>
        /\ crc_idx # None => crc_idx.v \in 0 .. 255
        /\ AX # None => AX.v \in 0 .. 65535
        /\ crc_pc = "done" =>
               /\ crc_ret.kind = "return"
               /\ crc_ret.val.v = ReferenceFold(crc_data)

-----------------------------------------------------------------------------
(* class DavisDate                                                         *)

RECURSIVE BitLength(_)
\* int.bit_length()
BitLength(n) == IF n = 0 THEN 0 ELSE 1 + BitLength(n \div 2)

\* A Python int too wide for the checker's integers is kept as k * 2^s.
Big(k) == [k |-> k, s |-> 0]

\* x << n on such an int
BigShiftLeft(x, n) == [k |-> x.k, s |-> x.s + n]

\* np.uint16(x), x a non-negative Python int: a value within 16 bits is kept;
\* numpy 1.x wraps a wider one that fits a C long and refuses one that does
\* not; numpy 2 refuses every value out of range
np_uint16(x) ==
    LET bits == IF x.k = 0 THEN 0 ELSE BitLength(x.k) + x.s
        low == IF x.s >= 16 THEN 0 ELSE (x.k * Pow2(x.s)) % 65536
    IN  IF bits <= 16 THEN Return(Uint16(low))
        ELSE IF numpy = "legacy" /\ bits <= 63 THEN Return(Uint16(low))
        ELSE Raise("OverflowError")

\* x & y
NpAnd(x, y) ==
    LET t == ResultType(x.t, y.t) IN [t |-> t, v |-> Wrap(t, BitAnd(x.v, y.v))]

\* x + y
NpAdd(x, y) ==
    LET t == ResultType(x.t, y.t) IN [t |-> t, v |-> Wrap(t, x.v + y.v)]

IsLeap(y) == (y % 4 = 0) /\ ((y % 100 # 0) \/ (y % 400 = 0))

DaysInMonth(y, m) ==
    IF m = 2 THEN (IF IsLeap(y) THEN 29 ELSE 28)
    ELSE IF m \in {4, 6, 9, 11} THEN 30
    ELSE 31

\* datetime.date(year, month, day)
datetime_date(y, m, d) ==
    IF y \in 1 .. 9999 /\ m \in 1 .. 12 /\ d \in 1 .. DaysInMonth(y, m)
    THEN Return([year |-> y, month |-> m, day |-> d])
    ELSE Raise("ValueError")

\* DavisDate.to_davis(d):
\*     np.uint16((d.year-2000) << 9 + d.month << 5 + d.day)
\* `+` binds tighter than `<<`, and `<<` groups to the left
DavisDate_to_davis(d) ==
    np_uint16(BigShiftLeft(BigShiftLeft(Big(d.year - 2000), 9 + d.month),
                           5 + d.day))

\* DavisDate.from_davis(value):
\*     year = value >> 9
\*     month = value & 0b0000000111100000 >> 5
\*     day = value & 31
\*     return datetime.date(year+2000, month, day)
\* `>>` binds tighter than `&`
DavisDate_from_davis(value) ==
    LET year == NpShiftRight(value, 9)
        month == NpAnd(value, PyInt(ShiftRight(480, 5)))
        day == NpAnd(value, PyInt(31))
    IN  datetime_date(NpAdd(year, PyInt(2000)).v, month.v, day.v)

-----------------------------------------------------------------------------
(* Inputs of the date codec: every calendar date of the years the packed   *)
(* form can hold, and every 16-bit value.                                  *)

DateYears == 2000 .. 2127

Dates ==
    {d \in [year : DateYears, month : 1 .. 12, day : 1 .. 31] :
        d.day <= DaysInMonth(d.year, d.month)}

PackedValues == 0 .. 65535

DateInit ==
    /\ numpy \in NumpyRules
    /\ date_op \in {"round_trip", "from_davis"}
    /\ IF date_op = "round_trip"
       THEN date_arg \in Dates /\ date_value = None /\ date_pc = "to_davis"
       ELSE /\ date_arg = None
            /\ date_value \in {Uint16(v) : v \in PackedValues}
            /\ date_pc = "from_davis"
    /\ date_ret = NoCall
    /\ CRCIdle /\ TimeIdle /\ LoopIdle /\ ShellIdle /\ EnumIdle

\* value = DavisDate.to_davis(d)
Date_to_davis ==
    /\ date_pc = "to_davis"
    /\ LET r == DavisDate_to_davis(date_arg)
       IN  /\ date_ret' = r
           /\ IF r.kind = "raise"
              THEN date_pc' = "done" /\ UNCHANGED date_value
              ELSE date_pc' = "from_davis" /\ date_value' = r.val
    /\ UNCHANGED <<numpy, date_op, date_arg, crcVars, timeVars, loopVars, shellVars, enumVars>>

\* DavisDate.from_davis(value)
Date_from_davis ==
    /\ date_pc = "from_davis"
    /\ date_ret' = DavisDate_from_davis(date_value)
    /\ date_pc' = "done"
    /\ UNCHANGED <<numpy, date_op, date_arg, date_value, crcVars, timeVars, loopVars, shellVars, enumVars>>

DateNext == Date_to_davis \/ Date_from_davis

SpecDate == DateInit /\ [][DateNext]_vars

-----------------------------------------------------------------------------
(* Claims about the packed date.                                           *)

\* the fields of a packed value by the documented layout:
\* 7 bit year | 4 bit month | 5 bit day, year offset 2000
LayoutDate(v) ==
    [year |-> 2000 + (v \div 512), month |-> (v \div 32) % 16, day |-> v % 32]

IsDate(d) == d.month \in 1 .. 12 /\ d.day \in 1 .. DaysInMonth(d.year, d.month)

\* C3: for every calendar date d from 2000-01-01 through 2127-12-31,
\* from_davis(to_davis(d)) returns d.
C3_DateRoundTrip ==
    (date_op = "round_trip" /\ date_pc = "done") => date_ret = Return(date_arg)

\* C4: for every 16-bit value v that denotes a legal date, from_davis(v) has
\* day = v mod 32, month = (v div 32) mod 16 and year = 2000 + (v div 512).
C4_DecodeFollowsLayout ==
    (/\ date_op = "from_davis" /\ date_pc = "done"
     /\ IsDate(LayoutDate(date_value.v)))
    => date_ret = Return(LayoutDate(date_value.v))

-----------------------------------------------------------------------------
(* class DavisTime                                                         *)

\* datetime.time(hour, minute)
datetime_time(h, m) ==
    IF h \in 0 .. 23 /\ m \in 0 .. 59
    THEN Return([hour |-> h, minute |-> m])
    ELSE Raise("ValueError")

\* DavisTime.to_davis(value): return value.hour * 100 + value.minute
DavisTime_to_davis(value) == PyInt(value.hour * 100 + value.minute)

\* DavisTime.from_davis(value) with the hour taken where the minute belongs
DavisTime_from_davis_swapped(value) ==
    LET m == value.v % 100
        h == value.v \div 100
    IN  datetime_time(m, h)

\* DavisTime.from_davis(value):
\*     m = value % 100
\*     h = value // 100
\*     return datetime.time(h, m)
DavisTime_from_davis(value) ==
    LET m == value.v % 100
        h == value.v \div 100
    IN  datetime_time(h, m)

-----------------------------------------------------------------------------
(* Inputs of the time codec: every time of day to the minute, and packed   *)
(* values up to MaxPackedTime.                                             *)

MaxPackedTime == 2500

Times == [hour : 0 .. 23, minute : 0 .. 59]

TimeInit ==
    /\ numpy \in NumpyRules
    /\ time_op \in {"round_trip", "from_davis"}
    /\ IF time_op = "round_trip"
       THEN time_arg \in Times /\ time_value = None /\ time_pc = "to_davis"
       ELSE /\ time_arg = None
            /\ time_value \in {Uint16(v) : v \in 0 .. MaxPackedTime}
            /\ time_pc = "from_davis"
    /\ time_ret = NoCall
    /\ CRCIdle /\ DateIdle /\ LoopIdle /\ ShellIdle /\ EnumIdle

\* value = DavisTime.to_davis(t)
Time_to_davis ==
    /\ time_pc = "to_davis"
    /\ time_value' = DavisTime_to_davis(time_arg)
    /\ time_ret' = Return(time_value')
    /\ time_pc' = "from_davis"
    /\ UNCHANGED <<numpy, time_op, time_arg, crcVars, dateVars, loopVars, shellVars, enumVars>>

\* DavisTime.from_davis(value)
Time_from_davis ==
    /\ time_pc = "from_davis"
    /\ time_ret' = DavisTime_from_davis(time_value)
    /\ time_pc' = "done"
    /\ UNCHANGED <<numpy, time_op, time_arg, time_value, crcVars, dateVars, loopVars, shellVars, enumVars>>

TimeNext == Time_to_davis \/ Time_from_davis

SpecTime == TimeInit /\ [][TimeNext]_vars

-----------------------------------------------------------------------------
(* Claims about the packed time.                                           *)

\* C5: for every hour in 0..23 and minute in 0..59, to_davis yields
\* hour*100 + minute and from_davis of that value returns the same hour and
\* minute.
C5_TimeRoundTrip ==
    time_op = "round_trip" =>
        /\ time_pc \in {"from_davis", "done"} =>
               time_value.v = time_arg.hour * 100 + time_arg.minute
        /\ time_pc = "done" => time_ret = Return(time_arg)

\* a round trip of 23:59 has come back
C5_Witness ==
    /\ time_op = "round_trip" /\ time_pc = "done"
    /\ time_arg = [hour |-> 23, minute |-> 59]
    /\ time_value.v = 2359
    /\ time_ret = Return([hour |-> 23, minute |-> 59])

-----------------------------------------------------------------------------
(* class LoopRecord                                                        *)

PyStr(s) == [t |-> "str", v |-> s]

PyBytes(s) == [t |-> "bytes", v |-> s]

\* a == b on Python values: a bytes object never equals a str
PyEq(a, b) == a.t = b.t /\ a.v = b.v

RECORD_LENGTH == 99

\* LOOP2_RECORD_FORMAT, '<' (little-endian, no padding) and then one
\* <<count, code>> for each piece of the string
LOOP2_RECORD_FORMAT ==
    <<
        << 3, "s">>,  \* String 'LOO'
        << 1, "b">>,  \* barometer trend
        << 1, "B">>,  \* Should be 1 for "LOOP 2" (0 would indicate "LOOP 1")
        << 1, "H">>,  \* Unused, should be 0x7FFF
        << 1, "H">>,  \* Barometer in thousandths of inches of mercury
        << 1, "h">>,  \* Inside temperature in tenths of degrees Fahrenheit
        << 1, "B">>,  \* Inside humidity in whole percents
        << 1, "h">>,  \* Outside temperature in tenths of degrees Fahrenheit
        << 1, "B">>,  \* Wind speed in MPH
        << 1, "B">>,  \* Unused, should be 0xFF
        << 1, "H">>,  \* Wind direction in degrees, 0 = no wind, 1 = nearly N, 90 = E
        << 1, "H">>,  \* 10-minute wind average speed in tenths of MPH
        << 1, "H">>,  \* 2-minute wind average speed in tenths of MPH
        << 1, "H">>,  \* 10-minute wind gust speed in tenths of MPH
        << 1, "H">>,  \* 10-minute wind gust direction in degrees
        << 1, "H">>,  \* Unused, should be 0x7FFF
        << 1, "H">>,  \* Unused, should be 0x7FFF
        << 1, "h">>,  \* Dew point in whole degrees Fahrenheit
        << 1, "B">>,  \* Unused, should be 0xFF
        << 1, "B">>,  \* Outside humidity in whole percents
        << 1, "B">>,  \* Unused, should be 0xFF
        << 1, "h">>,  \* Heat index in whole degrees Fahrenheit
        << 1, "h">>,  \* Wind chill in whole degrees Fahrenheit
        << 1, "h">>,  \* THSW index in whole degrees Fahrenheit
        << 1, "H">>,  \* Rain rate in clicks/hour
        << 1, "B">>,  \* UV Index
        << 1, "H">>,  \* Solar radiation in watts per square meter
        << 1, "H">>,  \* Number of rain clicks this storm
        << 2, "x">>,  \* Useless start date of this storm, which we don't care about
        << 1, "H">>,  \* Number of rain clicks today
        << 1, "H">>,  \* Number of rain clicks last 15 minutes
        << 1, "H">>,  \* Number of rain clicks last 1 hour
        << 1, "H">>,  \* Daily total evapotranspiration in thousandths of inches
        << 1, "H">>,  \* Number of rain clicks last 24 hours
        <<11, "x">>,  \* Barometer calibration-related settings and readings
        << 1, "B">>,  \* Unused, should be 0xFF
        << 1, "x">>,  \* Unused field filled with undefined data
        << 6, "x">>,  \* Information about what's displayed on the console graph, whi
        << 1, "B">>,  \* The minute within the hour, 0-59
        << 3, "x">>,  \* Information about what's displayed on the console graph, whi
        << 1, "H">>,  \* Unused, should be 0x7FFF
        << 1, "H">>,  \* Unused, should be 0x7FFF
        << 1, "H">>,  \* Unused, should be 0x7FFF
        << 1, "H">>,  \* Unused, should be 0x7FFF
        << 1, "H">>,  \* Unused, should be 0x7FFF
        << 1, "H">>,  \* Unused, should be 0x7FFF
        << 1, "c">>,  \* Should be '\n'
        << 1, "c">>,  \* Should be '\r'
        << 1, "H">>   \* Cyclic redundancy check (CRC)
    >>

\* the bytes one item of a format code takes
ItemSize(code) == IF code \in {"H", "h"} THEN 2 ELSE 1

RECURSIVE calcsize(_)
\* struct.calcsize
calcsize(fmt) ==
    IF fmt = <<>> THEN 0
    ELSE Head(fmt)[1] * ItemSize(Head(fmt)[2]) + calcsize(Tail(fmt))

\* one unpacked item at offset off (0-based) of the buffer
UnpackItem(code, count, buf, off) ==
    LET lo == buf[off + 1]
        u16 == buf[off + 1] + 256 * buf[off + 2]
    IN  CASE code = "s" -> PyBytes(SubSeq(buf, off + 1, off + count))
          [] code = "c" -> PyBytes(<<lo>>)
          [] code = "B" -> PyInt(lo)
          [] code = "b" -> PyInt(IF lo < 128 THEN lo ELSE lo - 256)
          [] code = "H" -> PyInt(u16)
          [] code = "h" -> PyInt(IF u16 < 32768 THEN u16 ELSE u16 - 65536)

RECURSIVE UnpackItems(_, _, _)
\* the items of fmt read from the buffer at offset off: 'x' skips bytes, 's' takes
\* count bytes as one item, every other code here has count 1
UnpackItems(fmt, buf, off) ==
    IF fmt = <<>> THEN <<>>
    ELSE LET count == Head(fmt)[1]
             code == Head(fmt)[2]
             rest == UnpackItems(Tail(fmt), buf, off + count * ItemSize(code))
         IN  IF code = "x" THEN rest
             ELSE <<UnpackItem(code, count, buf, off)>> \o rest

\* struct.unpack_from(fmt, data): needs at least calcsize(fmt) bytes and
\* ignores what follows them
struct_unpack_from(fmt, buf) ==
    IF Len(buf) < calcsize(fmt) THEN Raise("struct.error")
    ELSE Return(UnpackItems(fmt, buf, 0))

\* LOOP2_RECORD_VERIFICATION_MAP_WLK: index of the unpacked tuple -> the value
\* it must hold
VerificationKeys == {0, 2, 3, 9, 15, 16, 18, 20, 33, 35, 36, 37, 38, 39, 40, 41, 42}

LOOP2_RECORD_VERIFICATION_MAP_WLK ==
    [k \in VerificationKeys |->
        CASE k = 0 -> PyStr(<<76, 79, 79>>)
          [] k = 2 -> PyInt(1)
          [] k = 3 -> PyInt(32767)
          [] k = 9 -> PyInt(255)
          [] k = 15 -> PyInt(32767)
          [] k = 16 -> PyInt(32767)
          [] k = 18 -> PyInt(255)
          [] k = 20 -> PyInt(255)
          [] k = 33 -> PyInt(255)
          [] k = 35 -> PyInt(32767)
          [] k = 36 -> PyInt(32767)
          [] k = 37 -> PyInt(32767)
          [] k = 38 -> PyInt(32767)
          [] k = 39 -> PyInt(32767)
          [] k = 40 -> PyInt(32767)
          [] k = 41 -> PyStr(<<10>>)
          [] k = 42 -> PyStr(<<13>>)]

LOOP2_RECORD_SPECIAL_HANDLING == VerificationKeys

\* LOOP2_RECORD_ATTRIBUTE_MAP: (name, conversion, value meaning no reading)
LOOP2_RECORD_ATTRIBUTE_MAP ==
    <<
        [name |-> "_special", conv |-> "int", sentinel |-> None],
        [name |-> "barometric_trend", conv |-> "int", sentinel |-> PyInt(80)],
        [name |-> "_special", conv |-> "int", sentinel |-> None],
        [name |-> "_special", conv |-> "int", sentinel |-> None],
        [name |-> "barometric_pressure", conv |-> "dc.THOUSANDTHS", sentinel |-> PyInt(0)],
        [name |-> "temperature_inside", conv |-> "dc.TENTHS", sentinel |-> PyInt(32767)],
        [name |-> "humidity_inside", conv |-> "int", sentinel |-> PyInt(255)],
        [name |-> "temperature_outside", conv |-> "dc.TENTHS", sentinel |-> PyInt(32767)],
        [name |-> "wind_speed", conv |-> "float", sentinel |-> PyInt(255)],
        [name |-> "_special", conv |-> "int", sentinel |-> None],
        [name |-> "wind_direction_degrees", conv |-> "int", sentinel |-> PyInt(0)],
        [name |-> "wind_speed_10_minute_average", conv |-> "dc.TENTHS", sentinel |-> PyInt(0)],
        [name |-> "wind_speed_2_minute_average", conv |-> "dc.TENTHS", sentinel |-> PyInt(0)],
        [name |-> "wind_speed_10_minute_gust", conv |-> "dc.TENTHS", sentinel |-> PyInt(0)],
        [name |-> "wind_speed_10_minute_gust_direction_degrees", conv |-> "int", sentinel |-> PyInt(0)],
        [name |-> "_special", conv |-> "int", sentinel |-> None],
        [name |-> "_special", conv |-> "int", sentinel |-> None],
        [name |-> "dew_point", conv |-> "float", sentinel |-> PyInt(255)],
        [name |-> "_special", conv |-> "int", sentinel |-> None],
        [name |-> "humidity_outside", conv |-> "int", sentinel |-> PyInt(255)],
        [name |-> "_special", conv |-> "int", sentinel |-> None],
        [name |-> "heat_index", conv |-> "int", sentinel |-> PyInt(255)],
        [name |-> "wind_chill", conv |-> "int", sentinel |-> PyInt(255)],
        [name |-> "thsw_index", conv |-> "int", sentinel |-> PyInt(255)],
        [name |-> "rain_rate_clicks", conv |-> "int", sentinel |-> None],
        [name |-> "uv_index", conv |-> "dc.TENTHS", sentinel |-> PyInt(255)],
        [name |-> "solar_radiation", conv |-> "int", sentinel |-> PyInt(32767)],
        [name |-> "rain_clicks_this_storm", conv |-> "int", sentinel |-> None],
        [name |-> "rain_clicks_today", conv |-> "int", sentinel |-> None],
        [name |-> "rain_clicks_15_minutes", conv |-> "int", sentinel |-> None],
        [name |-> "rain_clicks_1_hour", conv |-> "int", sentinel |-> None],
        [name |-> "evapotranspiration", conv |-> "dc.THOUSANDTHS", sentinel |-> PyInt(0)],
        [name |-> "rain_clicks_24_hours", conv |-> "int", sentinel |-> None],
        [name |-> "_special", conv |-> "int", sentinel |-> None],
        [name |-> "minute_in_hour", conv |-> "int", sentinel |-> PyInt(60)]
    >>

LOOP_WIND_DIRECTION_SPECIAL ==
    <<
        <<"wind_direction_degrees", "wind_direction">>,
        <<"wind_speed_10_minute_gust_direction_degrees",
          "wind_speed_10_minute_gust_direction">>
    >>

LOOP_RAIN_AMOUNT_SPECIAL ==
    <<
        <<"rain_rate_clicks", "rain_rate">>,
        <<"rain_clicks_this_storm", "rain_amount_this_storm">>,
        <<"rain_clicks_today", "rain_amount_today">>,
        <<"rain_clicks_15_minutes", "rain_amount_15_minutes">>,
        <<"rain_clicks_1_hour", "rain_amount_1_hour">>,
        <<"rain_clicks_24_hours", "rain_amount_24_hours">>
    >>

\* the names a LoopRecord method can load: its parameters and locals, then
\* the module's globals
LoopLocalNames ==
    {"cls", "socket_file", "unique_only", "data", "unpacked", "arguments",
     "last", "i", "k", "v", "k1", "k2", "rain_collector_type"}

LoopLoadName(name) ==
    IF name \in LoopLocalNames \cup ModuleNames
    THEN Return(name)
    ELSE Raise("NameError")

\* socket_file.read(n): up to n bytes from the front of the stream
FileRead(stream, n) ==
    LET m == IF Len(stream) < n THEN Len(stream) ELSE n
    IN  [data |-> SubSeq(stream, 1, m), rest |-> SubSeq(stream, m + 1, Len(stream))]

-----------------------------------------------------------------------------
(* Inputs of the LOOP2 loader: a sample record with some of its fields     *)
(* replaced, with a right or a wrong checksum, cut short or followed by    *)
(* the start of the next record.                                           *)

RECURSIVE ItemPlace(_, _, _)
\* where item i (from 0) of the unpacked tuple lies in the buffer
ItemPlace(fmt, i, off) ==
    LET count == Head(fmt)[1]
        code == Head(fmt)[2]
        next == off + count * ItemSize(code)
    IN  IF code = "x" THEN ItemPlace(Tail(fmt), i, next)
        ELSE IF i = 0 THEN [off |-> off, code |-> code]
        ELSE ItemPlace(Tail(fmt), i - 1, next)

\* the bytes of one item, little-endian
PackItem(code, value) ==
    LET u == (value + 65536) % 65536
    IN  CASE code \in {"H", "h"} -> <<u % 256, u \div 256>>
          [] code \in {"B", "b"} -> <<u % 256>>
          [] OTHER -> value

\* buf with bytes b written at offset off
Splice(buf, off, b) ==
    [j \in 1 .. Len(buf) |->
        IF j - off \in 1 .. Len(b) THEN b[j - off] ELSE buf[j]]

\* buf with item i of the unpacked tuple set to value
WithItem(buf, i, value) ==
    LET p == ItemPlace(LOOP2_RECORD_FORMAT, i, 0)
    IN  Splice(buf, p.off, PackItem(p.code, value))

\* the place of a named attribute in the unpacked tuple
IndexOf(name) ==
    (CHOOSE i \in 1 .. Len(LOOP2_RECORD_ATTRIBUTE_MAP) :
        LOOP2_RECORD_ATTRIBUTE_MAP[i].name = name) - 1

Loop2Bodies ==
    {WithItem(WithItem(WithItem(WithItem(WithItem(SampleBody,
        0, tag),
        1, trend),
        IndexOf("temperature_outside"), temp),
        IndexOf("wind_direction_degrees"), wind),
        IndexOf("rain_clicks_today"), rain) :
        tag \in {<<76, 79, 79>>, <<76, 79, 88>>},
        trend \in {0, 7},
        temp \in {725, 32767},
        wind \in {0, 90, 360},
        rain \in {0, 12}}

Loop2Records ==
    {b \o c : b \in Loop2Bodies, c \in {<<0, 0>>}} \cup
    {WithChecksum(b) : b \in Loop2Bodies}

StreamLengths == {98, 99, 100}

Streams == {SubSeq(r \o <<76>>, 1, n) : r \in Loop2Records, n \in StreamLengths}

LoopCalls ==
    {"load_loop_1_2_from_connection", "load_loop_1_from_connection",
     "load_loop_2_from_connection", "_get_loop_2_arguments",
     "_post_process_arguments"}

-----------------------------------------------------------------------------
(* The classmethods of LoopRecord, a statement at a time.                  *)

LoopInit ==
    /\ numpy \in NumpyRules
    /\ loop_call \in LoopCalls
    /\ socket_file \in Streams
    /\ loop_pc = "entry"
    /\ data = None
    /\ unpacked = None
    /\ arguments = None
    /\ loop_ret = NoCall
    /\ CRCIdle /\ DateIdle /\ TimeIdle /\ ShellIdle /\ EnumIdle

\* load_loop_1_2_from_connection, load_loop_1_from_connection:
\*     cls._get_loop_1_arguments(socket_file, ...)
\* _get_loop_1_arguments: raise NotImplementedError()
Loop_get_loop_1_arguments ==
    /\ loop_pc = "entry"
    /\ loop_call \in {"load_loop_1_2_from_connection", "load_loop_1_from_connection"}
    /\ loop_ret' = Raise("NotImplementedError")
    /\ loop_pc' = "done"
    /\ UNCHANGED <<loop_call, socket_file, data, unpacked, arguments>>
    /\ UNCHANGED <<numpy, crcVars, dateVars, timeVars, shellVars, enumVars>>

\* _get_loop_2_arguments: data = socket_file.read(cls.RECORD_LENGTH)
Loop2_read ==
    /\ loop_pc = "entry"
    /\ loop_call \in {"load_loop_2_from_connection", "_get_loop_2_arguments"}
    /\ LET r == FileRead(socket_file, RECORD_LENGTH)
       IN  /\ data' = r.data
           /\ socket_file' = r.rest
    /\ loop_pc' = "unpack"
    /\ UNCHANGED <<loop_call, unpacked, arguments, loop_ret>>
    /\ UNCHANGED <<numpy, crcVars, dateVars, timeVars, shellVars, enumVars>>

\* unpacked = struct.unpack_from(cls.LOOP2_RECORD_FORMAT, data)
Loop2_unpack ==
    /\ loop_pc = "unpack"
    /\ LET r == struct_unpack_from(LOOP2_RECORD_FORMAT, data)
       IN  IF r.kind = "raise"
           THEN loop_ret' = r /\ loop_pc' = "done" /\ UNCHANGED unpacked
           ELSE unpacked' = r.val /\ loop_pc' = "verify" /\ UNCHANGED loop_ret
    /\ UNCHANGED <<loop_call, socket_file, data, arguments>>
    /\ UNCHANGED <<numpy, crcVars, dateVars, timeVars, shellVars, enumVars>>

\* for k, v in six.iteritems(cls.LOOP2_RECORD_VERIFICATION_MAP_WLK):
\* the module never binds `six`, so the loop header raises
Loop2_verify ==
    /\ loop_pc = "verify"
    /\ LET six == LoopLoadName("six")
       IN  IF six.kind = "raise"
           THEN loop_ret' = six /\ loop_pc' = "done"
           ELSE loop_ret' = loop_ret /\ loop_pc' = "assert"
    /\ UNCHANGED <<loop_call, socket_file, data, unpacked, arguments>>
    /\ UNCHANGED <<numpy, crcVars, dateVars, timeVars, shellVars, enumVars>>

\* _post_process_arguments(arguments):
\*     rain_collector_type = RainCollectorTypeSerial.inches_0_01
Loop_post_process_arguments ==
    /\ loop_pc = "entry"
    /\ loop_call = "_post_process_arguments"
    /\ LET r == LoopLoadName("RainCollectorTypeSerial")
       IN  IF r.kind = "raise"
           THEN loop_ret' = r /\ loop_pc' = "done"
           ELSE loop_ret' = loop_ret /\ loop_pc' = "trend"
    /\ UNCHANGED <<loop_call, socket_file, data, unpacked, arguments>>
    /\ UNCHANGED <<numpy, crcVars, dateVars, timeVars, shellVars, enumVars>>

LoopNext ==
    \/ Loop_get_loop_1_arguments
    \/ Loop2_read
    \/ Loop2_unpack
    \/ Loop2_verify
    \/ Loop_post_process_arguments

SpecLoop == LoopInit /\ [][LoopNext]_vars

-----------------------------------------------------------------------------
(* Claims about the LOOP2 decoding.  A reading is written as a fraction,   *)
(* [num, den]: 725 tenths is [num |-> 725, den |-> 10].                    *)

\* the physical value of raw value v under a conversion of the attribute map
Scaled(conv, v) ==
    [num |-> v,
     den |-> CASE conv = "dc.TENTHS" -> 10
               [] conv = "dc.HUNDREDTHS" -> 100
               [] conv = "dc.THOUSANDTHS" -> 1000
               [] OTHER -> 1]

\* the rain of n clicks for the collector of the source, 0.01 inch a click
Inches(n) == [num |-> n, den |-> 100]

\* the places of the attribute map that name an attribute
NamedFields ==
    {i \in 1 .. Len(LOOP2_RECORD_ATTRIBUTE_MAP) :
        LOOP2_RECORD_ATTRIBUTE_MAP[i].name # "_special"}

\* every fixed field of the unpacked tuple holds its constant
FixedFieldsHold(u) ==
    \A k \in VerificationKeys :
        u[k + 1].v = LOOP2_RECORD_VERIFICATION_MAP_WLK[k].v

\* a LOOP2 decode of a well-formed record has ended
Loop2Decoded ==
    /\ loop_call \in {"load_loop_2_from_connection", "_get_loop_2_arguments"}
    /\ loop_pc = "done"
    /\ unpacked # None
    /\ FixedFieldsHold(unpacked)

\* the raw value of a named attribute
Raw(name) == unpacked[IndexOf(name) + 1]

\* C6: for every named field of the attribute map, the decoded attribute is
\* absent exactly when the raw value equals the field's sentinel, and is
\* otherwise the raw value under the field's scale (outside temperature 32767
\* is absent, 725 is 72.5).
C6_SentinelOrScaled ==
    Loop2Decoded =>
        /\ loop_ret.kind = "return"
        /\ \A i \in NamedFields :
            LET a == LOOP2_RECORD_ATTRIBUTE_MAP[i]
            IN  loop_ret.val[a.name] =
                    IF a.sentinel # None /\ PyEq(unpacked[i], a.sentinel)
                    THEN None
                    ELSE Scaled(a.conv, unpacked[i].v)

\* C7: for each of the six rain click fields, a count of 0 decodes to zero
\* inches, not to an absent amount, and any other count to the count times the
\* inches of one click.
C7_RainAmounts ==
    Loop2Decoded =>
        /\ loop_ret.kind = "return"
        /\ \A j \in 1 .. Len(LOOP_RAIN_AMOUNT_SPECIAL) :
            LET k1 == LOOP_RAIN_AMOUNT_SPECIAL[j][1]
                k2 == LOOP_RAIN_AMOUNT_SPECIAL[j][2]
            IN  /\ loop_ret.val[k2] # None
                /\ loop_ret.val[k2] = Inches(Raw(k1).v)

\* C8: for the wind direction and the 10-minute gust direction, a raw code of
\* 0 decodes to an absent direction and every code in 1..360 to a direction of
\* that many degrees.
C8_WindDirections ==
    Loop2Decoded =>
        /\ loop_ret.kind = "return"
        /\ \A j \in 1 .. Len(LOOP_WIND_DIRECTION_SPECIAL) :
            LET k1 == LOOP_WIND_DIRECTION_SPECIAL[j][1]
                k2 == LOOP_WIND_DIRECTION_SPECIAL[j][2]
            IN  /\ Raw(k1).v = 0 => loop_ret.val[k2] = None
                /\ Raw(k1).v \in 1 .. 360 =>
                       loop_ret.val[k2] = [degrees |-> Raw(k1).v]

\* the number of bytes the caller handed to the LOOP2 decoder
BufferLength == Len(data) + Len(socket_file)

\* a LOOP2 decode has ended
Loop2Done ==
    /\ loop_call \in {"load_loop_2_from_connection", "_get_loop_2_arguments"}
    /\ loop_pc = "done"

\* C11: a LOOP2 decode of a buffer of 98 or of 100 bytes ends in the length
\* error, returns no record, and has extracted no field: nothing was unpacked
\* and no attribute was computed before the failure.
C11_BadLengthBeforeExtraction ==
    (Loop2Done /\ data # None /\ BufferLength # RECORD_LENGTH) =>
        /\ loop_ret = Raise("struct.error")
        /\ unpacked = None
        /\ arguments = None

\* C12: a LOOP2 decode of a 99-byte buffer in which a fixed field differs from
\* its constant ends in the error of the fixed-field check (the failed assert
\* of the verification loop), returns no record, and has computed neither the
\* checksum flag nor any attribute.
C12_FixedFieldMismatchIsReported ==
    (/\ Loop2Done /\ data # None /\ BufferLength = RECORD_LENGTH
     /\ unpacked # None /\ ~FixedFieldsHold(unpacked)) =>
        /\ loop_ret = Raise("AssertionError")
        /\ arguments = None

\* C13: a LOOP2 decode of a 99-byte buffer whose fixed fields all hold their
\* constants returns a record and never an error, whatever its checksum bytes
\* and its barometric trend code, and the record's crc_match is true exactly
\* when the checksum over all 99 bytes is 0.
C13_DecodeIsTotalAfterValidation ==
    (Loop2Decoded /\ BufferLength = RECORD_LENGTH) =>
        /\ loop_ret.kind = "return"
        /\ loop_ret.val.crc_match = (ReferenceFold(data) = 0)

-----------------------------------------------------------------------------
(* prepx, and the tables of commands and responses.  A str is given as its *)
(* code points.                                                            *)

\* the value of a hex digit, -1 for any other character
HexDigit(c) ==
    IF c \in 48 .. 57 THEN c - 48
    ELSE IF c \in 65 .. 70 THEN c - 55
    ELSE IF c \in 97 .. 102 THEN c - 87
    ELSE -1

RECURSIVE FromHex(_)
\* bytearray.fromhex(s) for s without spaces: two hex digits a byte
FromHex(s) ==
    IF s = <<>> THEN Return(<<>>)
    ELSE IF Len(s) = 1 \/ HexDigit(s[1]) < 0 \/ HexDigit(s[2]) < 0
    THEN Raise("ValueError")
    ELSE LET rest == FromHex(SubSeq(s, 3, Len(s)))
         IN  IF rest.kind = "raise" THEN rest
             ELSE Return(<<16 * HexDigit(s[1]) + HexDigit(s[2])>> \o rest.val)

\* prepx(s): the table calls it on well-formed strings only
prepx(s) == FromHex(s).val

\* a bytearray object, as the values of the classes below hold it
PyBytearray(items) == [type |-> "bytearray", items |-> items]

\* bytearray.extend(other) changes the bytearray in place and returns None
bytearray_extend(a, b) == None

DavisCommand ==
    [
        \* WAKEUP = prepx('0A')
        WAKEUP |-> PyBytearray(prepx(<<48, 65>>)),
        \* TEST = prep('TEST\n')
        TEST |-> PyBytearray(prep(<<84, 69, 83, 84, 10>>)),
        \* WRD = prep('WRD').extend(prepx('124D0A'))
        WRD |-> bytearray_extend(prep(<<87, 82, 68>>), prepx(<<49, 50, 52, 68, 48, 65>>)),
        \* RXCHECK = prep('RXCHECK\n')
        RXCHECK |-> PyBytearray(prep(<<82, 88, 67, 72, 69, 67, 75, 10>>)),
        \* VER = prep('RXTEST\n')
        VER |-> PyBytearray(prep(<<82, 88, 84, 69, 83, 84, 10>>)),
        \* RECEIVERS = prep('RECEIVERS\n')
        RECEIVERS |-> PyBytearray(prep(<<82, 69, 67, 69, 73, 86, 69, 82, 83, 10>>)),
        \* NVER = prep('NVER\n')
        NVER |-> PyBytearray(prep(<<78, 86, 69, 82, 10>>)),
        \* LOOP = prep('LOOP')
        LOOP |-> PyBytearray(prep(<<76, 79, 79, 80>>)),
        \* LPS = prep('LPS')
        LPS |-> PyBytearray(prep(<<76, 80, 83>>)),
        \* HILOWS = prep('HILOWS')
        HILOWS |-> PyBytearray(prep(<<72, 73, 76, 79, 87, 83>>)),
        \* PUTRAIN = prep('PUTRAIN')
        PUTRAIN |-> PyBytearray(prep(<<80, 85, 84, 82, 65, 73, 78>>)),
        \* PUTEST = prep('PUTET')
        PUTEST |-> PyBytearray(prep(<<80, 85, 84, 69, 84>>)),
        \* DMP = prep('DMP\n')
        DMP |-> PyBytearray(prep(<<68, 77, 80, 10>>)),
        \* DMPAFT = prep('DMPAFT')
        DMPAFT |-> PyBytearray(prep(<<68, 77, 80, 65, 70, 84>>)),
        \* GETEE = prep('GETEE\n')
        GETEE |-> PyBytearray(prep(<<71, 69, 84, 69, 69, 10>>)),
        \* EEWR = prep('EEWR')
        EEWR |-> PyBytearray(prep(<<69, 69, 87, 82>>)),
        \* EERD = prep('EERD')
        EERD |-> PyBytearray(prep(<<69, 69, 82, 68>>)),
        \* EEBWR = prep('EEBWR')
        EEBWR |-> PyBytearray(prep(<<69, 69, 66, 87, 82>>)),
        \* EEBRD = prep('EEBRD')
        EEBRD |-> PyBytearray(prep(<<69, 69, 66, 82, 68>>)),
        \* CALED = prep('CALED\n')
        CALED |-> PyBytearray(prep(<<67, 65, 76, 69, 68, 10>>)),
        \* CALFIX = prep('CALFIX\n')
        CALFIX |-> PyBytearray(prep(<<67, 65, 76, 70, 73, 88, 10>>)),
        \* BAR = prep('BAR')
        BAR |-> PyBytearray(prep(<<66, 65, 82>>)),
        \* BARDATA = prep('BARDATA\n')
        BARDATA |-> PyBytearray(prep(<<66, 65, 82, 68, 65, 84, 65, 10>>)),
        \* CLRLOG = prep('CLRLOG\n')
        CLRLOG |-> PyBytearray(prep(<<67, 76, 82, 76, 79, 71, 10>>)),
        \* CLRALM = prep('CLRALM\n')
        CLRALM |-> PyBytearray(prep(<<67, 76, 82, 65, 76, 77, 10>>)),
        \* CLRCAL = prep('CLRCAL\n')
        CLRCAL |-> PyBytearray(prep(<<67, 76, 82, 67, 65, 76, 10>>)),
        \* CLRGRA = prep('CLRGRA\n')
        CLRGRA |-> PyBytearray(prep(<<67, 76, 82, 71, 82, 65, 10>>)),
        \* CLRVAR = prep('CLRVAR')
        CLRVAR |-> PyBytearray(prep(<<67, 76, 82, 86, 65, 82>>)),
        \* CLRHIGHS = prep('CLRHIGHS')
        CLRHIGHS |-> PyBytearray(prep(<<67, 76, 82, 72, 73, 71, 72, 83>>)),
        \* CLRLOWS = prep('CLRLOWS')
        CLRLOWS |-> PyBytearray(prep(<<67, 76, 82, 76, 79, 87, 83>>)),
        \* CLRBITS = prep('CLRBITS\n')
        CLRBITS |-> PyBytearray(prep(<<67, 76, 82, 66, 73, 84, 83, 10>>)),
        \* SETTIME = prep('SETTIME')
        SETTIME |-> PyBytearray(prep(<<83, 69, 84, 84, 73, 77, 69>>)),
        \* GETTIME = prep('GETTIME\n')
        GETTIME |-> PyBytearray(prep(<<71, 69, 84, 84, 73, 77, 69, 10>>)),
        \* GAIN_ON = prep('GAIN 1\n')
        GAIN_ON |-> PyBytearray(prep(<<71, 65, 73, 78, 32, 49, 10>>)),
        \* GAIN_OFF = prep('GAIN 0\n')
        GAIN_OFF |-> PyBytearray(prep(<<71, 65, 73, 78, 32, 48, 10>>)),
        \* SETPER = prep('SETPER')
        SETPER |-> PyBytearray(prep(<<83, 69, 84, 80, 69, 82>>)),
        \* STOP = prep('STOP\n')
        STOP |-> PyBytearray(prep(<<83, 84, 79, 80, 10>>)),
        \* START = prep('START\n')
        START |-> PyBytearray(prep(<<83, 84, 65, 82, 84, 10>>)),
        \* NEWSETUP = prep('NEWSETUP\n')
        NEWSETUP |-> PyBytearray(prep(<<78, 69, 87, 83, 69, 84, 85, 80, 10>>)),
        \* LAMP_ON = prep('LAMPS 1\n')
        LAMP_ON |-> PyBytearray(prep(<<76, 65, 77, 80, 83, 32, 49, 10>>)),
        \* LAMP_OFF = prep('LAMPS 0\n')
        LAMP_OFF |-> PyBytearray(prep(<<76, 65, 77, 80, 83, 32, 48, 10>>))
    ]

DavisResponse ==
    [
        \* ACK = prepx('06')
        ACK |-> prepx(<<48, 54>>),
        \* OK = prep('\n\rOK\n\r')
        OK |-> prep(<<10, 13, 79, 75, 10, 13>>),
        \* DONE = prep('DONE\n\r')
        DONE |-> prep(<<68, 79, 78, 69, 10, 13>>),
        \* AWAKE = prepx('0A0D')
        AWAKE |-> prepx(<<48, 65, 48, 68>>)
    ]

-----------------------------------------------------------------------------
(* class Davis(cmd.Cmd), the command shell of davis.py                     *)

IsSpace(c) == c \in {9, 10, 11, 12, 13, 32}

RECURSIVE Split(_)
\* str.split(): the words between runs of white space
Split(s) ==
    IF s = <<>> THEN <<>>
    ELSE IF IsSpace(Head(s)) THEN Split(Tail(s))
    ELSE LET n == IF \E i \in 1 .. Len(s) : IsSpace(s[i])
                  THEN (CHOOSE i \in 1 .. Len(s) :
                            IsSpace(s[i]) /\ \A j \in 1 .. (i - 1) : ~IsSpace(s[j])) - 1
                  ELSE Len(s)
         IN  <<SubSeq(s, 1, n)>> \o Split(SubSeq(s, n + 1, Len(s)))

RECURSIVE Strip(_)
\* str.strip()
Strip(s) ==
    IF s = <<>> THEN s
    ELSE IF IsSpace(Head(s)) THEN Strip(Tail(s))
    ELSE IF IsSpace(s[Len(s)]) THEN Strip(SubSeq(s, 1, Len(s) - 1))
    ELSE s

RECURSIVE DecimalValue(_)
DecimalValue(s) ==
    IF s = <<>> THEN 0
    ELSE 10 * DecimalValue(SubSeq(s, 1, Len(s) - 1)) + (s[Len(s)] - 48)

\* int(s) for a word s: decimal digits, anything else is a ValueError
int(s) ==
    IF s # <<>> /\ \A i \in 1 .. Len(s) : s[i] \in 48 .. 57
    THEN Return(DecimalValue(s))
    ELSE Raise("ValueError")

\* the arguments of open_socket(info[0], int(info[1]))
OpenSocketArguments(info) ==
    IF Len(info) < 1 THEN Raise("IndexError")
    ELSE IF Len(info) < 2 THEN Raise("IndexError")
    ELSE LET port == int(info[2])
         IN  IF port.kind = "raise" THEN port
             ELSE Return(<<info[1], port.val>>)

\* the names an instance of Davis has: its own and those of cmd.Cmd
DavisAttributes ==
    {"use_rawinput", "doc_header", "prompt", "connection", "__init__",
     "__bool__", "preloop", "default", "do_connect", "do_exit",
     "cmdloop", "onecmd", "emptyline", "completedefault", "precmd", "postcmd",
     "postloop", "parseline", "columnize", "do_help", "print_topics",
     "completenames", "complete", "get_names", "complete_help",
     "identchars", "ruler", "lastcmd", "intro", "misc_header",
     "undoc_header", "nohelp", "stdin", "stdout", "cmdqueue", "completekey"}

\* self.<name>
GetAttr(name) ==
    IF name \in DavisAttributes THEN Return(name) ELSE Raise("AttributeError")

\* what connection.send(s) puts on the transport for the str s
Sent(command, s) == [dir |-> "tx", command |-> command, bytes |-> Utf8(s)]

\* the lines typed after `connect`
ConnectLines ==
    {
        <<>>,  \* ''
        <<118, 112, 50>>,  \* 'vp2'
        <<118, 112, 50, 32, 50, 50, 50, 50, 50>>,  \* 'vp2 22222'
        <<32, 118, 112, 50, 32, 32, 50, 50, 50, 50, 50, 32>>,  \* ' vp2  22222 '
        <<118, 112, 50, 32, 112, 111, 114, 116>>  \* 'vp2 port'
    }

MaxCommands == 3

\* Davis.__init__, and cmdloop waiting for a command
ShellInit ==
    /\ numpy \in NumpyRules
    /\ sh_pc = "prompt"
    /\ connection = None
    /\ wire = <<>>
    /\ console = <<>>
    /\ commands = 0
    /\ exit_code = None
    /\ CRCIdle /\ DateIdle /\ TimeIdle /\ LoopIdle /\ EnumIdle

\* what __main__ does with an exception that leaves cmdloop:
\* two tombstones and sys.exit(1)
Crash(e) ==
    /\ console' = console \o <<e, "stack trace">>
    /\ exit_code' = PyInt(1)
    /\ sh_pc' = "exited"

\* do_connect, to the end of the try statement:
\*     info = info.strip().split()
\*     self.connection = beachhead.SocketConnection()
\*     try: self.connection.open_socket(info[0], int(info[1]))
\*     except Exception as e: gkf.tombstone(...); return
\* opened tells whether open_socket succeeds
Shell_do_connect ==
    /\ sh_pc = "prompt" /\ commands < MaxCommands
    /\ \E line \in ConnectLines, opened \in BOOLEAN :
        LET info == Split(Strip(line))
            args == OpenSocketArguments(info)
        IN  /\ commands' = commands + 1
            /\ IF args.kind = "raise"
               THEN /\ connection' = [state |-> "new"]
                    /\ console' = Append(console, args.exc)
                    /\ sh_pc' = "prompt"
               ELSE IF ~opened
               THEN /\ connection' = [state |-> "new"]
                    /\ console' = Append(console, "OSError")
                    /\ sh_pc' = "prompt"
               ELSE /\ connection' = [state |-> "open", port |-> args.val[2]]
                    /\ console' = console
                    /\ sh_pc' = "connected"
    /\ UNCHANGED <<wire, exit_code>>
    /\ UNCHANGED <<numpy, crcVars, dateVars, timeVars, loopVars, enumVars>>

\*     print('Connected to /something/ at {}:{}'.format(info[0],info[1]))
\*     print('Ready to talk. Sending TEST')
Shell_do_connect_print ==
    /\ sh_pc = "connected"
    /\ console' = console \o <<"Connected to", "Ready to talk. Sending TEST">>
    /\ sh_pc' = "send"
    /\ UNCHANGED <<connection, wire, commands, exit_code>>
    /\ UNCHANGED <<numpy, crcVars, dateVars, timeVars, loopVars, enumVars>>

\*     self.connection.send('TEST')
\* sent tells whether the transport takes the bytes
Shell_do_connect_send ==
    /\ sh_pc = "send"
    /\ \E sent \in BOOLEAN :
        IF sent
        THEN /\ wire' = Append(wire, Sent("TEST", <<84, 69, 83, 84>>))
             /\ sh_pc' = "read"
             /\ UNCHANGED <<console, exit_code>>
        ELSE /\ Crash("OSError")
             /\ UNCHANGED wire
    /\ UNCHANGED <<connection, commands>>
    /\ UNCHANGED <<numpy, crcVars, dateVars, timeVars, loopVars, enumVars>>

\*     reply = self.read()
\* neither Davis nor cmd.Cmd has an attribute `read`
Shell_do_connect_read ==
    /\ sh_pc = "read"
    /\ LET read == GetAttr("read")
       IN  IF read.kind = "raise"
           THEN Crash(read.exc) /\ UNCHANGED wire
           ELSE /\ wire' = wire
                /\ console' = Append(console, "Received")
                /\ sh_pc' = "prompt"
                /\ UNCHANGED exit_code
    /\ UNCHANGED <<connection, commands>>
    /\ UNCHANGED <<numpy, crcVars, dateVars, timeVars, loopVars, enumVars>>

\* do_exit: self.connection.close(); sys.exit(os.EX_OK)
Shell_do_exit ==
    /\ sh_pc = "prompt" /\ commands < MaxCommands
    /\ commands' = commands + 1
    /\ IF connection = None
       THEN Crash("AttributeError") /\ UNCHANGED connection
       ELSE /\ connection' = [connection EXCEPT !.state = "closed"]
            /\ exit_code' = PyInt(0)
            /\ sh_pc' = "exited"
            /\ UNCHANGED console
    /\ UNCHANGED wire
    /\ UNCHANGED <<numpy, crcVars, dateVars, timeVars, loopVars, enumVars>>

\* default: any other command is reported and answered with the help
Shell_default ==
    /\ sh_pc = "prompt" /\ commands < MaxCommands
    /\ commands' = commands + 1
    /\ console' = console \o <<"unknown command", "help">>
    /\ UNCHANGED <<sh_pc, connection, wire, exit_code>>
    /\ UNCHANGED <<numpy, crcVars, dateVars, timeVars, loopVars, enumVars>>

ShellNext ==
    \/ Shell_do_connect
    \/ Shell_do_connect_print
    \/ Shell_do_connect_send
    \/ Shell_do_connect_read
    \/ Shell_do_exit
    \/ Shell_default

SpecShell == ShellInit /\ [][ShellNext]_vars

-----------------------------------------------------------------------------
(* Claims about the commands on the transport.                             *)

\* C9: no data command is written to the transport before the wake byte 0x0A
\* has been written and the AWAKE token (0x0A 0x0D) has been read back.
C9_WakeBeforeCommand ==
    \A i \in 1 .. Len(wire) :
        (wire[i].dir = "tx" /\ wire[i].bytes # DavisCommand.WAKEUP.items) =>
            \E j \in 1 .. (i - 1), k \in 1 .. (i - 1) :
                /\ j < k
                /\ wire[j].dir = "tx" /\ wire[j].bytes = DavisCommand.WAKEUP.items
                /\ wire[k].dir = "rx" /\ wire[k].bytes = DavisResponse.AWAKE

\* C10: a complete command such as TEST, encoded with no parameters, is
\* exactly its template bytes ("TEST" and a newline); a command that takes
\* parameters is never sent as its bare template.
C10_CompleteCommandIsItsTemplate ==
    \A i \in 1 .. Len(wire) :
        (wire[i].dir = "tx" /\ wire[i].command = "TEST") =>
            wire[i].bytes = DavisCommand.TEST.items

-----------------------------------------------------------------------------
(* The class statement of DavisCommand: the body binds one name a          *)
(* statement, then enum.Enum's metaclass makes a member of each bound      *)
(* name.  The two modules hold the same class body.                        *)

\* the names the class body binds, in the order of the source
DavisCommandNames ==
    <<"WAKEUP", "TEST", "WRD", "RXCHECK", "VER",
      "RECEIVERS", "NVER", "LOOP", "LPS", "HILOWS",
      "PUTRAIN", "PUTEST", "DMP", "DMPAFT", "GETEE",
      "EEWR", "EERD", "EEBWR", "EEBRD", "CALED",
      "CALFIX", "BAR", "BARDATA", "CLRLOG", "CLRALM",
      "CLRCAL", "CLRGRA", "CLRVAR", "CLRHIGHS", "CLRLOWS",
      "CLRBITS", "SETTIME", "GETTIME", "GAIN_ON", "GAIN_OFF",
      "SETPER", "STOP", "START", "NEWSETUP", "LAMP_ON",
      "LAMP_OFF">>

EnumModules == {"daviscommands", "davismethods"}

\* the first name of the body bound to the value of the i-th: a later name
\* with an equal value becomes an alias of the earlier member
Canonical(cd, i) ==
    CHOOSE j \in 1 .. i :
        /\ cd[j].value = cd[i].value
        /\ \A k \in 1 .. (j - 1) : cd[k].value # cd[i].value

\* EnumMeta.__new__: the member map, name -> member, a member being the
\* pair of its name and its value
EnumMemberMap(cd) ==
    [i \in 1 .. Len(cd) |->
        [name |-> cd[i].name,
         member |-> [name |-> cd[Canonical(cd, i)].name,
                     value |-> cd[Canonical(cd, i)].value]]]

\* names a caller may look up: every name of the body, and one it lacks
LookupNames == {DavisCommandNames[i] : i \in 1 .. Len(DavisCommandNames)} \cup {"ENCODE"}

EnumInit ==
    /\ numpy \in NumpyRules
    /\ enum_module \in EnumModules
    /\ enum_pc = "body"
    /\ classdict = <<>>
    /\ members = <<>>
    /\ enum_name = ""
    /\ enum_ret = NoCall
    /\ CRCIdle /\ DateIdle /\ TimeIdle /\ LoopIdle /\ ShellIdle

\* the next statement of the class body: NAME = the value of its expression
Enum_body ==
    /\ enum_pc = "body"
    /\ Len(classdict) < Len(DavisCommandNames)
    /\ LET name == DavisCommandNames[Len(classdict) + 1]
       IN  classdict' = Append(classdict, [name |-> name, value |-> DavisCommand[name]])
    /\ UNCHANGED <<enum_module, enum_pc, members, enum_name, enum_ret>>
    /\ UNCHANGED <<numpy, crcVars, dateVars, timeVars, loopVars, shellVars>>

\* the end of the class statement: the metaclass builds the class
Enum_class ==
    /\ enum_pc = "body"
    /\ Len(classdict) = Len(DavisCommandNames)
    /\ members' = EnumMemberMap(classdict)
    /\ enum_pc' = "class"
    /\ UNCHANGED <<enum_module, classdict, enum_name, enum_ret>>
    /\ UNCHANGED <<numpy, crcVars, dateVars, timeVars, loopVars, shellVars>>

\* DavisCommand[name]: the member of that name, KeyError if there is none
Enum_getitem ==
    /\ enum_pc = "class"
    /\ \E name \in LookupNames :
        /\ enum_name' = name
        /\ enum_ret' =
            IF \E i \in 1 .. Len(members) : members[i].name = name
            THEN Return((CHOOSE m \in {members[i] : i \in 1 .. Len(members)} :
                            m.name = name).member)
            ELSE Raise("KeyError")
    /\ enum_pc' = "done"
    /\ UNCHANGED <<enum_module, classdict, members>>
    /\ UNCHANGED <<numpy, crcVars, dateVars, timeVars, loopVars, shellVars>>

EnumNext ==
    \/ Enum_body
    \/ Enum_class
    \/ Enum_getitem

SpecEnum == EnumInit /\ [][EnumNext]_vars

-----------------------------------------------------------------------------
(* Claims about the table of commands.                                     *)

\* the last byte of a template is the newline
EndsWithNewline(template) ==
    /\ template # None
    /\ Len(template.items) > 0
    /\ template.items[Len(template.items)] = 10

\* the value the class gives the command of that name
Template(name) ==
    (CHOOSE m \in {members[i] : i \in 1 .. Len(members)} : m.name = name).member.value

\* C14: every member of the command table, WRD included, is mapped to a
\* defined, non-empty byte template and none to an absent value; the template
\* of a complete command (WAKEUP, TEST, WRD) ends with the newline byte and
\* that of a command that takes parameters (LOOP) does not.
C14_CommandTableWellFormed ==
    enum_pc \in {"class", "done"} =>
        /\ \A i \in 1 .. Len(members) :
            /\ members[i].member.value # None
            /\ Len(members[i].member.value.items) > 0
        /\ \A name \in {"WAKEUP", "TEST", "WRD"} : EndsWithNewline(Template(name))
        /\ ~EndsWithNewline(Template("LOOP"))

====
